---- MODULE Spec2Model ----
(***************************************************************************)
(* Model of the voicetyping service: the processing state machine          *)
(* (voicetyping/state.py), the transcription queue consumer and the        *)
(* orchestrator VoiceTypingInterface (voicetyping/main.py).                *)
(*                                                                         *)
(* The specifications defined here:                                          *)
(*   SMSpec  - ProcessingStateMachine alone, driven by arbitrary events    *)
(*             and listener registrations;                                 *)
(*   Spec    - the service: the IPC methods StartRecording/StopRecording,  *)
(*             the processing task (_processing_pipeline iterating         *)
(*             process_queue) and close().  FairSpec adds weak fairness    *)
(*             of the processing task.                                     *)
(*   KbdSpec - the text-injection process (voicetyping/keyboard): the      *)
(*             entry point server() and the typing service behind          *)
(*             VirtualKeyboardInterface.emit.                              *)
(***************************************************************************)
EXTENDS Integers, Sequences, FiniteSets, TLC

VARIABLES
    state,            \* ProcessingStateMachine._state
    listeners,        \* ProcessingStateMachine._listeners (a list of callbacks)
    smLast,           \* the last call made on a bare state machine and its outcome
    recording,        \* VoiceTypingInterface._recording: a handle number, 0 is None
    cleanupCalls,     \* per created RecordingHandle: number of cleanup() calls
    transcript_path,  \* VoiceTypingInterface.transcript_path
    store_transcripts,\* VoiceTypingInterface.store_transcripts
    queue,            \* TranscriptionService.queue: task numbers, oldest first
    tasks,            \* every TranscriptionTask ever built, with its observed history
    pc,               \* where the processing task (_processing_pipeline) stands
    cur,              \* the task the processing task holds, 0 if none
    cancelRequested,  \* _processing_task.cancel() was called, not yet delivered
    proxy,            \* VirtualKeyboardDBusClient.proxy is set
    closed,           \* close() has run
    rscCount,         \* number of RecordingStateChanged signals emitted
    rscLast,          \* payload of the last RecordingStateChanged signal
    errCount,         \* number of ErrorOccurred signals emitted
    chgCount,         \* number of transition() calls that changed _state
    stopLog,          \* statements completed by the try block of the last StopRecording
    nCalls,           \* number of IPC calls made so far
    lastOp,           \* the last IPC method called
    lastRet,          \* what it returned ("raised" when it raised)
    srv,              \* the run of keyboard/server.py:server()
    kbd               \* VirtualKeyboardInterface with its VirtualKeyboardService

vars == <<state, listeners, smLast, recording, cleanupCalls, transcript_path,
          store_transcripts, queue, tasks, pc, cur, cancelRequested, proxy,
          closed, rscCount, rscLast, errCount, chgCount, stopLog, nCalls,
          lastOp, lastRet, srv, kbd>>

smVars == <<state, listeners, smLast>>

svcVars == <<recording, cleanupCalls, transcript_path, store_transcripts, queue,
             tasks, pc, cur, cancelRequested, proxy, closed, rscCount, rscLast,
             errCount, chgCount, stopLog, nCalls, lastOp, lastRet>>

kbdVars == <<srv, kbd>>

-----------------------------------------------------------------------------
(* Bounds *)

MaxCalls == 4        \* IPC calls per behaviour
MaxListeners == 3    \* length of the listener list of the bare state machine
MaxEmits == 3        \* emit calls received by the text-injection service

-----------------------------------------------------------------------------
(* voicetyping/state.py *)

ProcessingState == {"IDLE", "RECORDING", "TRANSFORMING", "TRANSCRIBING"}

ProcessingEvent == {"START_RECORDING", "TRANSFORM_START", "TRANSFORM_STOP",
                    "TRANSCRIBE_START", "TRANSCRIBE_STOP", "STOP_RECORDING"}

\* NextState without the (IDLE, STOP_RECORDING) edge case.
NextState_NoEdgeCase(s, e) ==
    CASE s = "IDLE" /\ e = "START_RECORDING" -> "RECORDING"
      [] s = "RECORDING" /\ e = "STOP_RECORDING" -> "IDLE"
      [] s = "IDLE" /\ e = "TRANSFORM_START" -> "TRANSFORMING"
      [] s = "TRANSFORMING" /\ e = "TRANSFORM_STOP" -> "IDLE"
      [] s = "IDLE" /\ e = "TRANSCRIBE_START" -> "TRANSCRIBING"
      [] s = "TRANSCRIBING" /\ e = "TRANSCRIBE_STOP" -> "IDLE"
      [] OTHER -> "TransitionError"

\* NextState that lets START_RECORDING through from every state but Recording.
NextState_StartAnywhere(s, e) ==
    CASE s # "RECORDING" /\ e = "START_RECORDING" -> "RECORDING"
      [] s = "RECORDING" /\ e = "STOP_RECORDING" -> "IDLE"
      [] s = "IDLE" /\ e = "TRANSFORM_START" -> "TRANSFORMING"
      [] s = "TRANSFORMING" /\ e = "TRANSFORM_STOP" -> "IDLE"
      [] s = "IDLE" /\ e = "TRANSCRIBE_START" -> "TRANSCRIBING"
      [] s = "TRANSCRIBING" /\ e = "TRANSCRIBE_STOP" -> "IDLE"
      [] s = "IDLE" /\ e = "STOP_RECORDING" -> s
      [] OTHER -> "TransitionError"

\* NextState without the (IDLE, START_RECORDING) case.
NextState_NoStart(s, e) ==
    CASE s = "RECORDING" /\ e = "STOP_RECORDING" -> "IDLE"
      [] s = "IDLE" /\ e = "TRANSFORM_START" -> "TRANSFORMING"
      [] s = "TRANSFORMING" /\ e = "TRANSFORM_STOP" -> "IDLE"
      [] s = "IDLE" /\ e = "TRANSCRIBE_START" -> "TRANSCRIBING"
      [] s = "TRANSCRIBING" /\ e = "TRANSCRIBE_STOP" -> "IDLE"
      [] s = "IDLE" /\ e = "STOP_RECORDING" -> s
      [] OTHER -> "TransitionError"

\* The match statement of transition(): the new value of _state, or
\* "TransitionError" for the default case.
NextState(s, e) ==
    CASE s = "IDLE" /\ e = "START_RECORDING" -> "RECORDING"
      [] s = "RECORDING" /\ e = "STOP_RECORDING" -> "IDLE"
      [] s = "IDLE" /\ e = "TRANSFORM_START" -> "TRANSFORMING"
      [] s = "TRANSFORMING" /\ e = "TRANSFORM_STOP" -> "IDLE"
      [] s = "IDLE" /\ e = "TRANSCRIBE_START" -> "TRANSCRIBING"
      [] s = "TRANSCRIBING" /\ e = "TRANSCRIBE_STOP" -> "IDLE"
      [] s = "IDLE" /\ e = "STOP_RECORDING" -> s
      [] OTHER -> "TransitionError"

\* notify_listeners that starts the loop at the second entry.
notify_listeners_SkipFirst(ls, old, new) ==
    [i \in 1..(Len(ls) - 1) |-> <<ls[i + 1], old, new>>]

\* notify_listeners that walks the list backwards.
notify_listeners_Reversed(ls, old, new) ==
    [i \in 1..Len(ls) |-> <<ls[Len(ls) + 1 - i], old, new>>]

\* _notify_listeners: one call per entry of the list, in list order.
notify_listeners(ls, old, new) ==
    [i \in 1..Len(ls) |-> <<ls[i], old, new>>]

\* transition that resets the machine to Idle when the pair is unknown.
transition_ErrorResetsIdle(s, ls, e) ==
    LET n == NextState(s, e) IN
    IF n = "TransitionError"
    THEN [ok |-> FALSE, state |-> "IDLE", notes |-> <<>>]
    ELSE [ok |-> TRUE, state |-> n,
          notes |-> IF n # s THEN notify_listeners(ls, s, n) ELSE <<>>]

\* transition that notifies without comparing the old and new states.
transition_AlwaysNotify(s, ls, e) ==
    LET n == NextState(s, e) IN
    IF n = "TransitionError"
    THEN [ok |-> FALSE, state |-> s, notes |-> <<>>]
    ELSE [ok |-> TRUE, state |-> n, notes |-> notify_listeners(ls, s, n)]

\* transition(event) on a machine in state s with listener list ls:
\* whether it returned, the state it leaves, the listener calls it made.
transition(s, ls, e) ==
    LET n == NextState(s, e) IN
    IF n = "TransitionError"
    THEN [ok |-> FALSE, state |-> s, notes |-> <<>>]
    ELSE [ok |-> TRUE, state |-> n,
          notes |-> IF s # n THEN notify_listeners(ls, s, n) ELSE <<>>]

\* 1 when the transition result r, obtained in state s, changed the state.
Changed(s, r) == IF r.ok /\ r.state # s THEN 1 ELSE 0

\* is_recording that is never true.
is_recording_Never(s) == FALSE

\* is_recording that is true in every state but Idle.
is_recording_NotIdle(s) == s # "IDLE"

\* The is_recording property.
is_recording(s) == s = "RECORDING"

\* list.remove(x): drops the first occurrence.
RECURSIVE ListRemove(_, _)
ListRemove(ls, x) ==
    IF ls = <<>> THEN <<>>
    ELSE IF Head(ls) = x THEN Tail(ls)
    ELSE <<Head(ls)>> \o ListRemove(Tail(ls), x)

InSeq(ls, x) == \E i \in 1..Len(ls) : ls[i] = x

-----------------------------------------------------------------------------
(* Constructor state of the service, main.py:109-122 *)

Listener == {"L1", "L2"}

NoCall == [op |-> "none", from |-> "IDLE", event |-> "none", outcome |-> "none",
           notes |-> <<>>]

\* server() has not been called: no thread, event clear, process running.
ServerInit ==
    [pc |-> "not_started", thread_started |-> FALSE, shutdown_event |-> FALSE,
     joined |-> FALSE, exit_code |-> "running"]

\* VirtualKeyboardInterface.__init__ / VirtualKeyboardService.__init__:
\* an empty queue and no processing task (0 is None).  consumers[k] is the
\* position of the k-th task created by start().
KbdInit ==
    [processing_task |-> 0, consumers |-> <<>>, queue |-> <<>>, job |-> <<>>,
     typed |-> <<>>, received |-> <<>>, emits |-> 0, closed |-> FALSE]

KbInit == srv = ServerInit /\ kbd = KbdInit

SvcInit ==
    /\ recording = 0
    /\ cleanupCalls = <<>>
    /\ transcript_path = "unset"
    /\ store_transcripts = "unset"
    /\ queue = <<>>
    /\ tasks = <<>>
    /\ pc = "connect"
    /\ cur = 0
    /\ cancelRequested = FALSE
    /\ proxy = FALSE
    /\ closed = FALSE
    /\ rscCount = 0
    /\ rscLast = FALSE
    /\ errCount = 0
    /\ chgCount = 0
    /\ stopLog = <<>>
    /\ nCalls = 0
    /\ lastOp = "none"
    /\ lastRet = "none"

-----------------------------------------------------------------------------
(* The bare state machine *)

SMInit ==
    /\ state = "IDLE"
    /\ listeners = <<>>
    /\ smLast = NoCall
    /\ SvcInit
    /\ KbInit

SMTransition(e) ==
    LET r == transition(state, listeners, e) IN
    /\ state' = r.state
    /\ smLast' = [op |-> "transition", from |-> state, event |-> e,
                  outcome |-> IF r.ok THEN r.state ELSE "TransitionError",
                  notes |-> r.notes]
    /\ UNCHANGED listeners
    /\ UNCHANGED <<svcVars, kbdVars>>

SMAddListener(l) ==
    /\ Len(listeners) < MaxListeners
    /\ listeners' = Append(listeners, l)
    /\ smLast' = [NoCall EXCEPT !.op = "add_listener", !.from = state, !.event = l]
    /\ UNCHANGED state
    /\ UNCHANGED <<svcVars, kbdVars>>

SMRemoveListener(l) ==
    /\ InSeq(listeners, l)
    /\ listeners' = ListRemove(listeners, l)
    /\ smLast' = [NoCall EXCEPT !.op = "remove_listener", !.from = state, !.event = l]
    /\ UNCHANGED state
    /\ UNCHANGED <<svcVars, kbdVars>>

SMNext ==
    \/ \E e \in ProcessingEvent : SMTransition(e)
    \/ \E l \in Listener : SMAddListener(l)
    \/ \E l \in Listener : SMRemoveListener(l)

SMSpec == SMInit /\ [][SMNext]_vars

-----------------------------------------------------------------------------
(* Properties of the bare state machine *)

\* The transition table as the specification lists it.
SpecTable == {<<"IDLE", "START_RECORDING", "RECORDING">>,
              <<"RECORDING", "STOP_RECORDING", "IDLE">>,
              <<"IDLE", "TRANSFORM_START", "TRANSFORMING">>,
              <<"TRANSFORMING", "TRANSFORM_STOP", "IDLE">>,
              <<"IDLE", "TRANSCRIBE_START", "TRANSCRIBING">>,
              <<"TRANSCRIBING", "TRANSCRIBE_STOP", "IDLE">>,
              <<"IDLE", "STOP_RECORDING", "IDLE">>}

InSpecTable(s, e) == \E t \in SpecTable : t[1] = s /\ t[2] = e

\* C1: a transition call on a listed (state, event) pair succeeds, returns the
\* declared target and leaves currentState equal to it; a call on any of the
\* other 17 pairs fails with TransitionError.
C1_TransitionTable ==
    /\ Cardinality({p \in ProcessingState \X ProcessingEvent :
                        ~InSpecTable(p[1], p[2])}) = 17
    /\ smLast.op = "transition" =>
          IF InSpecTable(smLast.from, smLast.event)
          THEN \E t \in SpecTable :
                  /\ t[1] = smLast.from /\ t[2] = smLast.event
                  /\ smLast.outcome = t[3]
                  /\ state = t[3]
          ELSE smLast.outcome = "TransitionError"

\* C1 witness: the edge case (Idle, StopRecording) was fired and succeeded.
C1_Witness ==
    /\ smLast.op = "transition"
    /\ smLast.from = "IDLE" /\ smLast.event = "STOP_RECORDING"
    /\ smLast.outcome = "IDLE" /\ state = "IDLE"

\* C13: listeners are notified only when the state differs before and after
\* the transition: (Idle, StopRecording) and every failed transition make no
\* listener call, and a transition that changes the state calls the
\* listeners with exactly (oldState, newState).
C13_NotifyOnChangeOnly ==
    smLast.op = "transition" =>
        /\ (smLast.from = "IDLE" /\ smLast.event = "STOP_RECORDING") =>
              (smLast.notes = <<>> /\ state = "IDLE")
        /\ IF smLast.outcome \in ProcessingState /\ smLast.outcome # smLast.from
           THEN /\ Len(listeners) > 0 => smLast.notes # <<>>
                /\ \A i \in 1..Len(smLast.notes) :
                      /\ smLast.notes[i][2] = smLast.from
                      /\ smLast.notes[i][3] = smLast.outcome
                      /\ smLast.notes[i][3] = state
           ELSE smLast.notes = <<>>

\* C13 witness: (Idle, StopRecording) was fired with listeners registered and
\* none was called.
C13_Witness ==
    /\ smLast.op = "transition"
    /\ smLast.from = "IDLE" /\ smLast.event = "STOP_RECORDING"
    /\ Len(listeners) = 2
    /\ smLast.notes = <<>>

\* Number of entries of the list ls equal to x.
Count(ls, x) == Cardinality({i \in 1..Len(ls) : ls[i] = x})

\* The list ls without its entry number k.
DropAt(ls, k) == [i \in 1..(Len(ls) - 1) |-> IF i < k THEN ls[i] ELSE ls[i + 1]]

C31_FailedTransitionChangesNothing ==
    smLast.op = "transition" =>
        /\ smLast.outcome = "TransitionError" <=> ~InSpecTable(smLast.from, smLast.event)
        /\ smLast.outcome = "TransitionError" =>
              (state = smLast.from /\ smLast.notes = <<>>)

\* C31 witness: STOP_RECORDING failed in Transcribing with two listeners
\* registered.
C31_Witness ==
    /\ smLast.op = "transition" /\ smLast.outcome = "TransitionError"
    /\ smLast.from = "TRANSCRIBING" /\ smLast.event = "STOP_RECORDING"
    /\ state = "TRANSCRIBING" /\ Len(listeners) = 2 /\ smLast.notes = <<>>

-----------------------------------------------------------------------------
(* Inputs of the IPC methods and outcomes of the collaborators *)

Devices == {"mic", "nodev"}          \* "nodev" is not in list_devices()
Paths == {"/tmp", "/home"}
Languages == {"en"}
Providers == {"openai", "groq", "acme"}
Models == {"whisper-1", "whisper-large-v3"}
ApiKeys == {"", "key"}

\* const.py: InferenceProvider(value) raises ValueError on an unknown value.
InferenceProvider == {"openai", "groq"}

\* openai_client.py: the members of the two model enums.
OpenAITranscriptionModel == {"whisper-1", "gpt-4o-transcribe", "gpt-4o-mini-transcribe"}
GroqTranscriptionModel == {"whisper-large-v3-turbo", "distil-whisper-large-v3-en",
                           "whisper-large-v3"}

\* transcription_model_from_provider: TRUE when the enum lookup succeeds.
transcription_model_from_provider(provider, model) ==
    CASE provider = "openai" -> model \in OpenAITranscriptionModel
      [] provider = "groq" -> model \in GroqTranscriptionModel
      [] OTHER -> FALSE

\* TranscriptionClients.get: raises ValueError on an empty api key.
clients_get(provider, api_key) == api_key # ""

\* What can go wrong inside the RecordingHandle during StopRecording.
HandleFailures == {"none", "stop", "fingerprint", "save"}

\* The first statement of the try block of StopRecording that raises, in
\* program order, or "none".  rec is self._recording (0 is None, whose
\* attribute access raises).
StopFailPoint(rec, hfail, provider, model, api_key) ==
    IF rec = 0 \/ hfail = "stop" THEN "stop"
    ELSE IF hfail = "fingerprint" THEN "fingerprint"
    ELSE IF hfail = "save" THEN "save"
    ELSE IF provider \notin InferenceProvider THEN "provider"
    ELSE IF ~transcription_model_from_provider(provider, model) THEN "model"
    ELSE IF ~clients_get(provider, api_key) THEN "client"
    ELSE "none"

\* How a create_transcription call followed by decode/strip can end.
Outcomes == {"text", "blank", "undecodable", "VoiceTypingError", "Exception"}

FailedOutcomes == {"undecodable", "VoiceTypingError", "Exception"}

NoneText == "<None>"
UnsetText == "<unset>"

\* ResultText that leaves a text in the slot when the call raised.
ResultText_KeepsText(outcome) ==
    CASE outcome = "blank" -> ""
      [] outcome = "undecodable" -> NoneText
      [] OTHER -> "hello"

\* task.transcription after lines 78-88 of process_queue.
ResultText(outcome) ==
    CASE outcome = "text" -> "hello"
      [] outcome = "blank" -> ""
      [] OTHER -> NoneText

\* Truthy that only tests for None.
Truthy_NotNone(text) == text # NoneText

\* Python truthiness of task.transcription.
Truthy(text) == text # NoneText /\ text # ""

\* hashlib.md5(text.encode("utf-8")).hexdigest()
Md5(text) ==
    CASE text = "hello" -> "5d41402abc4b2a76b9719d911017c592"
      [] text = "" -> "d41d8cd98f00b204e9800998ecf8427e"
      [] OTHER -> "?"

-----------------------------------------------------------------------------
(* errors.py and the constructor of VoiceTypingInterface *)

\* CtorOrder with the handler installed before the task is created.
CtorOrder_HandlerFirst == <<"set_error_handler", "create_task">>

\* The two statements of __init__ that touch the context: the processing
\* task is created (main.py:119) before the handler is set (main.py:121).
CtorOrder == <<"create_task", "set_error_handler">>

\* asyncio.create_task runs the coroutine in a copy of the context taken when
\* the task is created: the processing task sees the _error_handler that was
\* set before create_task, the default None otherwise.
TaskContextHandler ==
    \E k \in 1..Len(CtorOrder) :
        /\ CtorOrder[k] = "create_task"
        /\ \E j \in 1..(k - 1) : CtorOrder[j] = "set_error_handler"

\* emit_error called from the processing task: the number of ErrorOccurred
\* signals it produces.
emit_error == IF TaskContextHandler THEN 1 ELSE 0

OnStateChange == "_on_state_change"

\* _on_state_change + RecordingStateChanged: signals produced by the listener
\* calls of one transition.
SignalCount(notes) == Cardinality({i \in 1..Len(notes) : notes[i][1] = OnStateChange})

\* Payload of the last signal after these listener calls (is_recording is
\* read when the signal is emitted, i.e. on the new state).
SignalLast(notes, last) ==
    IF SignalCount(notes) = 0 THEN last ELSE is_recording(notes[Len(notes)][3])

-----------------------------------------------------------------------------
(* The service *)

Init ==
    /\ state = "IDLE"
    /\ listeners = <<OnStateChange>>
    /\ smLast = NoCall
    /\ SvcInit
    /\ KbInit

NewTask(persist, base, ts, ret) ==
    [persist |-> persist, base |-> base, ts |-> ts, stage |-> "queued",
     stopRet |-> ret, log |-> <<>>,
     outcome |-> "pending", text |-> UnsetText,
     onStart |-> 0, onFinish |-> 0, yielded |-> 0,
     written |-> 0, writtenDir |-> "", writtenName |-> "",
     emitCalls |-> 0, emitOk |-> "none", errQueue |-> 0, errDownstream |-> 0,
     cleanupAttempts |-> 0, audioExists |-> TRUE]

\* create_recording: the device must be listed and the stream must open.
create_recording(device, openOk) == device = "mic" /\ openOk

\* StartRecording, main.py:163-181.
StartRecording(device, path, persist, openOk) ==
    /\ ~closed
    /\ nCalls < MaxCalls
    /\ nCalls' = nCalls + 1
    /\ lastOp' = "StartRecording"
    /\ UNCHANGED <<listeners, smLast, queue, tasks, pc, cur, cancelRequested,
                   proxy, closed, errCount, stopLog, srv, kbd>>
    /\ IF is_recording(state)
       THEN /\ lastRet' = "already_recording"
            /\ UNCHANGED <<state, recording, cleanupCalls, transcript_path,
                           store_transcripts, rscCount, rscLast, chgCount>>
       ELSE /\ transcript_path' = path
            /\ store_transcripts' = persist
            /\ IF ~create_recording(device, openOk)
               THEN /\ lastRet' = "recording_failed"
                    /\ UNCHANGED <<state, recording, cleanupCalls, rscCount, rscLast,
                                   chgCount>>
               ELSE LET r == transition(state, listeners, "START_RECORDING") IN
                    /\ cleanupCalls' = Append(cleanupCalls, 0)
                    /\ recording' = Len(cleanupCalls) + 1
                    /\ state' = r.state
                    /\ rscCount' = rscCount + SignalCount(r.notes)
                    /\ rscLast' = SignalLast(r.notes, rscLast)
                    /\ chgCount' = chgCount + Changed(state, r)
                    /\ lastRet' = IF r.ok THEN "recording_started"
                                  ELSE "recording_failed"

\* The transitions fired by the try block of StopRecording up to the failure
\* point fp, applied in order to state s: ok, state and listener calls
\* accumulated, and the number of them that changed the state.
RECURSIVE FireAll(_, _, _)
FireAll(s, notes, events) ==
    IF events = <<>> THEN [ok |-> TRUE, state |-> s, notes |-> notes, changes |-> 0]
    ELSE LET r == transition(s, listeners, Head(events)) IN
         IF ~r.ok THEN [ok |-> FALSE, state |-> s, notes |-> notes, changes |-> 0]
         ELSE LET rest == FireAll(r.state, notes \o r.notes, Tail(events))
              IN [rest EXCEPT !.changes = @ + Changed(s, r)]

\* StopSteps with TransformStop fired before the audio is saved.
StopSteps_TransformStopEarly ==
    <<"stop", "STOP_RECORDING", "TRANSFORM_START", "TRANSFORM_STOP", "fingerprint",
      "save", "provider", "model", "client", "enqueue">>

\* StopSteps without the TransformStart/TransformStop bracket.
StopSteps_NoTransform ==
    <<"stop", "STOP_RECORDING", "fingerprint", "save", "provider", "model", "client",
      "enqueue">>

\* StopSteps with the task enqueued before the save.
StopSteps_EnqueueEarly ==
    <<"stop", "STOP_RECORDING", "TRANSFORM_START", "fingerprint", "enqueue", "save",
      "provider", "model", "client", "TRANSFORM_STOP">>

\* The statements of the try block of StopRecording in program order
\* (main.py:191-216): handle calls, fired events, argument resolution, enqueue.
StopSteps ==
    <<"stop", "STOP_RECORDING", "TRANSFORM_START", "fingerprint", "save",
      "provider", "model", "client", "TRANSFORM_STOP", "enqueue">>

\* The statements completed when the statement fp raises ("none": all).
RECURSIVE Before(_, _)
Before(steps, fp) ==
    IF steps = <<>> \/ Head(steps) = fp THEN <<>>
    ELSE <<Head(steps)>> \o Before(Tail(steps), fp)

Executed(fp) == Before(StopSteps, fp)

IsEvent(x) == x \in ProcessingEvent

\* The events fired before the failure point.
StopEvents(fp) == SelectSeq(Executed(fp), IsEvent)

\* StopRecording, main.py:183-224.
StopRecording(language, provider, model, api_key, hfail, cleanupOk) ==
    /\ ~closed
    /\ nCalls < MaxCalls
    /\ nCalls' = nCalls + 1
    /\ lastOp' = "StopRecording"
    /\ UNCHANGED <<listeners, smLast, transcript_path, store_transcripts, pc, cur,
                   cancelRequested, proxy, closed, srv, kbd>>
    /\ IF ~is_recording(state)
       THEN /\ lastRet' = "not_recording"
            /\ UNCHANGED <<state, recording, cleanupCalls, queue, tasks,
                           rscCount, rscLast, errCount, chgCount, stopLog>>
       ELSE LET fp == StopFailPoint(recording, hfail, provider, model, api_key)
                r == FireAll(state, <<>>, StopEvents(fp))
                done == InSeq(Executed(fp), "enqueue") /\ r.ok
            IN
            /\ state' = r.state
            /\ rscCount' = rscCount + SignalCount(r.notes)
            /\ rscLast' = SignalLast(r.notes, rscLast)
            /\ chgCount' = chgCount + r.changes
            /\ stopLog' = Executed(fp)
            /\ IF done
               THEN /\ tasks' = Append(tasks,
                                  NewTask(store_transcripts, transcript_path, nCalls,
                                          IF recording = 0 \/ ~cleanupOk THEN "raised"
                                          ELSE IF fp = "none" THEN "recording_stopped"
                                          ELSE "stop_failed"))
                    /\ queue' = Append(queue, Len(tasks) + 1)
               ELSE UNCHANGED <<tasks, queue>>
            \* except: self._emit_error("internal", ...)
            /\ errCount' = IF fp = "none" /\ r.ok THEN errCount ELSE errCount + 1
            \* finally: self._recording.cleanup(); self._recording = None
            /\ IF recording = 0
               THEN /\ lastRet' = "raised"
                    /\ UNCHANGED <<recording, cleanupCalls>>
               ELSE /\ cleanupCalls' = [cleanupCalls EXCEPT ![recording] = @ + 1]
                    /\ IF cleanupOk
                       THEN /\ recording' = 0
                            /\ lastRet' = IF fp = "none" /\ r.ok
                                          THEN "recording_stopped"
                                          ELSE "stop_failed"
                       ELSE /\ recording' = recording
                            /\ lastRet' = "raised"

\* The D-Bus encoding of a boolean reply.
BoolReply(b) == IF b THEN "true" ELSE "false"

\* GetRecordingState, main.py:226-229: a pure read.
GetRecordingState ==
    /\ ~closed
    /\ lastOp' = "GetRecordingState"
    /\ lastRet' = BoolReply(is_recording(state))
    /\ UNCHANGED <<state, listeners, smLast, recording, cleanupCalls,
                   transcript_path, store_transcripts, queue, tasks, pc, cur,
                   cancelRequested, proxy, closed, rscCount, rscLast, errCount,
                   chgCount, stopLog, nCalls, srv, kbd>>

-----------------------------------------------------------------------------
(* The processing task: _processing_pipeline iterating process_queue *)

\* Values of pc:
\*   "connect"      awaiting keyboard_client.connect()          (main.py:139)
\*   "get"          awaiting queue.get() on an empty queue       (main.py:70)
\*   "transcribe"   awaiting create_transcription                (main.py:78)
\*   "emit"         awaiting keyboard_client.emit                (main.py:151)
\*   "unavailable"  returned because connect() failed            (main.py:142)
\*   "crashed"      ended by an exception nobody caught
\*   "cancelled"    ended by cancellation
Suspended_NoTranscribe == {"connect", "get", "emit"}

Suspended == {"connect", "get", "transcribe", "emit"}

\* A snapshot of what the processing task changes while it runs between two
\* suspension points.
Snap(p, st, q, c, tk, rc, rl, ec, cc) ==
    [pc |-> p, state |-> st, queue |-> q, cur |-> c, tasks |-> tk,
     rscCount |-> rc, rscLast |-> rl, errCount |-> ec, chgCount |-> cc]

Here == Snap(pc, state, queue, cur, tasks, rscCount, rscLast, errCount, chgCount)

Commit(x) ==
    /\ pc' = x.pc
    /\ state' = x.state
    /\ queue' = x.queue
    /\ cur' = x.cur
    /\ tasks' = x.tasks
    /\ rscCount' = x.rscCount
    /\ rscLast' = x.rscLast
    /\ errCount' = x.errCount
    /\ chgCount' = x.chgCount

\* Dequeue that takes the newest task of the queue.
Dequeue_Last(x) ==
    LET t == x.queue[Len(x.queue)]
        r == transition(x.state, listeners, "TRANSCRIBE_START")
    IN [x EXCEPT
          !.queue = SubSeq(x.queue, 1, Len(x.queue) - 1),
          !.cur = t,
          !.state = r.state,
          !.rscCount = @ + SignalCount(r.notes),
          !.rscLast = SignalLast(r.notes, @),
          !.chgCount = @ + Changed(x.state, r),
          !.tasks = [@ EXCEPT ![t] =
                        [@ EXCEPT !.onStart = @ + 1,
                                  !.stage = IF r.ok THEN "transcribing" ELSE "dropped"]],
          !.pc = IF r.ok THEN "transcribe" ELSE "crashed"]

\* queue.get() returns the oldest task and on_start_callback fires
\* TRANSCRIBE_START (main.py:70-71).  A TransitionError raised by the callback
\* is outside the inner try and is not a CancelledError: it ends the
\* generator and the pipeline task.
Dequeue(x) ==
    LET t == Head(x.queue)
        r == transition(x.state, listeners, "TRANSCRIBE_START")
    IN [x EXCEPT
          !.queue = Tail(x.queue),
          !.cur = t,
          !.state = r.state,
          !.rscCount = @ + SignalCount(r.notes),
          !.rscLast = SignalLast(r.notes, @),
          !.chgCount = @ + Changed(x.state, r),
          !.tasks = [@ EXCEPT ![t] =
                        [@ EXCEPT !.onStart = @ + 1,
                                  !.stage = IF r.ok THEN "transcribing" ELSE "dropped"]],
          !.pc = IF r.ok THEN "transcribe" ELSE "crashed"]

\* Top of the while loop: queue.get() suspends only when the queue is empty.
LoopTop(x) ==
    IF x.queue = <<>> THEN [x EXCEPT !.pc = "get", !.cur = 0] ELSE Dequeue(x)

\* DispatchBranch that looks at the persist flag only.
DispatchBranch_PersistOnly(text, persist) ==
    IF persist THEN "write_and_emit" ELSE "report_failure"

\* Which branch of main.py:145-154 a yielded task takes.
DispatchBranch(text, persist) ==
    IF Truthy(text) /\ persist THEN "write_and_emit" ELSE "report_failure"

\* ShouldCleanup that ignores the persist flag.
ShouldCleanup_Always(task) == task.audioExists

\* main.py:155: whether the audio artifact is removed.
ShouldCleanup(task) == ~task.persist /\ task.audioExists

\* CleanupSection that reports a failed unlink through the error channel.
CleanupSection_Escalates(x, t, unlinkOk) ==
    IF ShouldCleanup(x.tasks[t])
    THEN [x EXCEPT !.errCount = IF unlinkOk THEN @ ELSE @ + 1,
                   !.tasks = [@ EXCEPT ![t] =
                        [@ EXCEPT !.cleanupAttempts = @ + 1,
                                  !.log = Append(@, "unlink"),
                                  !.audioExists = ~unlinkOk]]]
    ELSE x

\* main.py:155-161 for task t; unlinkOk is whether unlink succeeds (a failure
\* is caught and logged).
CleanupSection(x, t, unlinkOk) ==
    IF ShouldCleanup(x.tasks[t])
    THEN [x EXCEPT !.tasks = [@ EXCEPT ![t] =
                        [@ EXCEPT !.cleanupAttempts = @ + 1,
                                  !.log = Append(@, "unlink"),
                                  !.audioExists = ~unlinkOk]]]
    ELSE x

\* End of the loop body for task t: the task is done, the generator resumes.
BodyDone(x, t, unlinkOk) ==
    LET y == CleanupSection(x, t, unlinkOk)
    IN LoopTop([y EXCEPT !.tasks = [@ EXCEPT ![t] = [@ EXCEPT !.stage = "done"]]])

\* The loop body of _processing_pipeline for the yielded task t, up to its
\* first suspension point (main.py:145-161).
Downstream(x, t, writeOk, unlinkOk) ==
    LET task == x.tasks[t] IN
    IF DispatchBranch(task.text, task.persist) = "write_and_emit"
    THEN IF ~writeOk
         THEN \* open()/write() raised: the pipeline task ends
              [x EXCEPT !.pc = "crashed",
                        !.tasks = [@ EXCEPT ![t] = [@ EXCEPT !.stage = "interrupted"]]]
         ELSE LET y == [x EXCEPT !.tasks = [@ EXCEPT ![t] =
                            [@ EXCEPT !.written = @ + 1,
                                      !.writtenDir = <<task.base, task.ts>>,
                                      !.writtenName = <<Md5(task.text), ".txt">>,
                                      !.emitCalls = @ + 1,
                                      !.log = @ \o <<"write", "emit">>,
                                      !.stage = "emitting"]]]
              IN IF proxy
                 THEN [y EXCEPT !.pc = "emit"]
                 ELSE \* emit returns False at once when not connected
                      BodyDone([y EXCEPT !.tasks = [@ EXCEPT ![t] =
                                    [@ EXCEPT !.emitOk = "failed"]]], t, unlinkOk)
    ELSE BodyDone([x EXCEPT !.errCount = @ + 1,
                            !.tasks = [@ EXCEPT ![t] =
                                [@ EXCEPT !.errDownstream = @ + 1,
                                          !.log = Append(@, "error")]]],
                  t, unlinkOk)

\* create_transcription returned or raised (main.py:78-93): the result slot
\* is set, the error is routed, on_finish_callback fires TRANSCRIBE_STOP in
\* the finally block, the task is yielded and the loop body runs.
AfterTranscription(x, t, outcome, writeOk, unlinkOk) ==
    LET errs == IF outcome \in FailedOutcomes THEN emit_error ELSE 0
        r == transition(x.state, listeners, "TRANSCRIBE_STOP")
        y == [x EXCEPT
                !.state = r.state,
                !.rscCount = @ + SignalCount(r.notes),
                !.rscLast = SignalLast(r.notes, @),
                !.chgCount = @ + Changed(x.state, r),
                !.errCount = @ + errs,
                !.tasks = [@ EXCEPT ![t] =
                              [@ EXCEPT !.outcome = outcome,
                                        !.text = ResultText(outcome),
                                        !.errQueue = @ + errs,
                                        !.onFinish = @ + 1]]]
    IN IF ~r.ok
       THEN [y EXCEPT !.pc = "crashed",
                      !.tasks = [@ EXCEPT ![t] = [@ EXCEPT !.stage = "dropped"]]]
       ELSE Downstream([y EXCEPT !.tasks = [@ EXCEPT ![t] =
                                    [@ EXCEPT !.yielded = @ + 1,
                                              !.stage = "yielded"]]],
                       t, writeOk, unlinkOk)

svcFrame == <<listeners, smLast, recording, cleanupCalls, transcript_path,
              store_transcripts, stopLog, nCalls, lastOp, lastRet, srv, kbd>>

\* Connect that enters the loop whatever connect() returned.
Connect_IgnoresFailure(ok) ==
    /\ pc = "connect" /\ ~cancelRequested
    /\ proxy' = ok
    /\ Commit(LoopTop(Here))
    /\ UNCHANGED <<svcFrame, cancelRequested, closed>>

\* keyboard_client.connect() completes (main.py:139-144).
Connect(ok) ==
    /\ pc = "connect" /\ ~cancelRequested
    /\ IF ok
       THEN /\ proxy' = TRUE
            /\ Commit(LoopTop(Here))
       ELSE /\ proxy' = FALSE
            /\ Commit([Here EXCEPT !.pc = "unavailable", !.errCount = @ + 1])
    /\ UNCHANGED <<svcFrame, cancelRequested, closed>>

\* The getter of an empty queue is woken by add_to_queue.
WakeGet ==
    /\ pc = "get" /\ ~cancelRequested
    /\ queue # <<>>
    /\ Commit(Dequeue(Here))
    /\ UNCHANGED <<svcFrame, cancelRequested, closed, proxy>>

\* The awaited create_transcription completes.
FinishTranscription(outcome, writeOk, unlinkOk) ==
    /\ pc = "transcribe" /\ ~cancelRequested
    /\ Commit(AfterTranscription(Here, cur, outcome, writeOk, unlinkOk))
    /\ UNCHANGED <<svcFrame, cancelRequested, closed, proxy>>

\* The awaited keyboard_client.emit completes; its result is ignored.
EmitReturn(ok, unlinkOk) ==
    /\ pc = "emit" /\ ~cancelRequested
    /\ Commit(BodyDone([Here EXCEPT !.tasks = [@ EXCEPT ![cur] =
                            [@ EXCEPT !.emitOk = IF ok THEN "ok" ELSE "failed"]]],
                        cur, unlinkOk))
    /\ UNCHANGED <<svcFrame, cancelRequested, closed, proxy>>

\* close(), main.py:133-135: disconnect the keyboard client, cancel the task.
Close ==
    /\ ~closed
    /\ closed' = TRUE
    /\ proxy' = FALSE
    /\ cancelRequested' = (pc \in Suspended)
    /\ UNCHANGED <<state, queue, tasks, pc, cur, rscCount, rscLast, errCount,
                   chgCount, svcFrame>>

\* DeliverCancel in which the cancellation skips the finally block.
DeliverCancel_NoFinally ==
    /\ cancelRequested
    /\ cancelRequested' = FALSE
    /\ CASE pc = "transcribe" ->
              Commit([Here EXCEPT
                        !.pc = "cancelled",
                        !.tasks = [@ EXCEPT ![cur] = [@ EXCEPT !.stage = "dropped"]]])
         [] pc = "emit" ->
              Commit([Here EXCEPT
                        !.pc = "cancelled",
                        !.tasks = [@ EXCEPT ![cur] = [@ EXCEPT !.stage = "interrupted"]]])
         [] OTHER -> Commit([Here EXCEPT !.pc = "cancelled"])
    /\ UNCHANGED <<svcFrame, closed, proxy>>

\* The CancelledError is raised at the suspension point of the task.
DeliverCancel ==
    /\ cancelRequested
    /\ cancelRequested' = FALSE
    /\ CASE pc = "transcribe" ->
              \* not an Exception: only the finally block runs, then the outer
              \* except breaks the loop
              LET r == transition(state, listeners, "TRANSCRIBE_STOP") IN
              Commit([Here EXCEPT
                        !.pc = "cancelled",
                        !.state = r.state,
                        !.rscCount = @ + SignalCount(r.notes),
                        !.rscLast = SignalLast(r.notes, @),
                        !.chgCount = @ + Changed(state, r),
                        !.tasks = [@ EXCEPT ![cur] =
                                      [@ EXCEPT !.onFinish = @ + 1,
                                                !.stage = "dropped"]]])
         [] pc = "emit" ->
              Commit([Here EXCEPT
                        !.pc = "cancelled",
                        !.tasks = [@ EXCEPT ![cur] = [@ EXCEPT !.stage = "interrupted"]]])
         [] OTHER -> Commit([Here EXCEPT !.pc = "cancelled"])
    /\ UNCHANGED <<svcFrame, closed, proxy>>

PipelineStep ==
    \/ \E ok \in BOOLEAN : Connect(ok)
    \/ WakeGet
    \/ \E o \in Outcomes, w, u \in BOOLEAN : FinishTranscription(o, w, u)
    \/ \E ok, u \in BOOLEAN : EmitReturn(ok, u)
    \/ DeliverCancel

Next ==
    \/ \E d \in Devices, p \in Paths, s \in BOOLEAN, o \in BOOLEAN :
          StartRecording(d, p, s, o)
    \/ \E l \in Languages, pr \in Providers, m \in Models, k \in ApiKeys,
          h \in HandleFailures, c \in BOOLEAN :
          StopRecording(l, pr, m, k, h, c)
    \/ GetRecordingState
    \/ PipelineStep
    \/ Close

Spec == Init /\ [][Next]_vars

\* The event loop runs a runnable task, and every awaited call returns.
FairSpec == Spec /\ WF_vars(PipelineStep)

-----------------------------------------------------------------------------
(* Properties of the service *)

TaskIds == 1..Len(tasks)
Handles == 1..Len(cleanupCalls)

\* A handle is open from create_recording until cleanup() is called on it.
OpenHandles == {h \in Handles : cleanupCalls[h] = 0}

\* The downstream step of task t has run to its end.
DownstreamDone(t) == tasks[t].stage = "done"

\* C2: at most one RecordingHandle obtained from create_recording is open at
\* any time.
C2_AtMostOneOpenHandle == Cardinality(OpenHandles) <= 1

\* C3: every task enqueued by a StopRecording that returned recording_stopped
\* is eventually yielded downstream, unless the processing task is cancelled.
C3_EveryTaskYielded ==
    \A t \in 1..(MaxCalls \div 2) :
        (Len(tasks) >= t /\ tasks[t].stopRet = "recording_stopped")
            ~> (closed \/ (Len(tasks) >= t /\ tasks[t].yielded > 0))

C5_UnpersistedTextIsEmitted ==
    \A t \in TaskIds :
        (Truthy(tasks[t].text) /\ ~tasks[t].persist /\ DownstreamDone(t)) =>
            /\ tasks[t].written = 0
            /\ tasks[t].emitCalls = 1
            /\ tasks[t].errDownstream = 0
            /\ tasks[t].log = <<"emit", "unlink">>

C7_AbsentTextReported ==
    \A t \in TaskIds :
        (tasks[t].text = NoneText /\ tasks[t].yielded > 0) =>
            /\ tasks[t].errDownstream = 1
            /\ tasks[t].emitCalls = 0
            /\ tasks[t].log = IF tasks[t].persist THEN <<"error">>
                              ELSE <<"error", "unlink">>

\* C7 witness: a task without text and without persistence was dispatched.
C7_Witness ==
    \E t \in TaskIds :
        /\ tasks[t].text = NoneText /\ ~tasks[t].persist
        /\ DownstreamDone(t)
        /\ tasks[t].cleanupAttempts = 1

\* A step that is a call of the IPC method op.
IsCall(op) == nCalls' = nCalls + 1 /\ lastOp' = op

\* C8: a StartRecording call that follows a StartRecording call which returned
\* recording_started returns already_recording, leaves the state Recording,
\* requests no handle, notifies no listener and keeps the stored directory and
\* persist flag.
C8_SecondStartRejected ==
    [][(lastOp = "StartRecording" /\ lastRet = "recording_started"
            /\ IsCall("StartRecording")) =>
        /\ lastRet' = "already_recording"
        /\ state = "RECORDING" /\ state' = "RECORDING"
        /\ UNCHANGED <<recording, cleanupCalls, rscCount, rscLast,
                       transcript_path, store_transcripts>>]_vars

\* C8 witness: the second of two calls returned already_recording.
C8_Witness ==
    /\ nCalls = 2 /\ Len(cleanupCalls) = 1
    /\ lastOp = "StartRecording" /\ lastRet = "already_recording"
    /\ state = "RECORDING"

\* C9: a StopRecording call made in a state other than Recording returns
\* not_recording and changes nothing.
C9_StopWhenNotRecording ==
    [][(state # "RECORDING" /\ IsCall("StopRecording")) =>
        /\ lastRet' = "not_recording"
        /\ UNCHANGED <<state, listeners, recording, cleanupCalls,
                       transcript_path, store_transcripts, queue, tasks, pc,
                       cur, cancelRequested, proxy, closed, rscCount, rscLast,
                       errCount>>]_vars

\* C9 witness: StopRecording was refused while the machine was Transforming.
C9_Witness ==
    /\ state = "TRANSFORMING"
    /\ lastOp = "StopRecording" /\ lastRet = "not_recording"

\* C10: no handle is dropped (its reference overwritten or cleared) before
\* cleanup() has been called on it.
C10_NoHandleDropped ==
    \A h \in Handles : cleanupCalls[h] = 0 => recording = h

\* C11: RecordingStateChanged is emitted once for every transition that
\* changes the state and never otherwise, with payload true iff the new state
\* is Recording; so a successful StartRecording emits it once and a successful
\* StopRecording emits it 3 times before returning.
C11_SignalPerStateChange ==
    [][/\ rscCount' - rscCount = chgCount' - chgCount
       /\ state' # state => rscCount' > rscCount
       /\ rscCount' > rscCount => rscLast' = (state' = "RECORDING")
       /\ (IsCall("StartRecording") /\ lastRet' = "recording_started") =>
             (rscCount' = rscCount + 1 /\ rscLast' = TRUE)
       /\ (IsCall("StopRecording") /\ lastRet' = "recording_stopped") =>
             (rscCount' = rscCount + 3 /\ rscLast' = FALSE)]_vars

\* C11 witness: a StopRecording has returned recording_stopped after the
\* signals of the start and of its own three transitions.
C11_Witness ==
    /\ nCalls = 2 /\ lastOp = "StopRecording" /\ lastRet = "recording_stopped"
    /\ rscCount = 4 /\ chgCount = 4 /\ rscLast = FALSE

\* The call sequence was exactly StartRecording, StopRecording, both
\* successful, the client returned text and the task has been fully processed.
RoundTripDone ==
    /\ nCalls = 2 /\ Len(tasks) = 1
    /\ tasks[1].stopRet = "recording_stopped"
    /\ tasks[1].outcome = "text"
    /\ DownstreamDone(1)

\* C12 as stated: after the round trip the state is Idle and
\* RecordingStateChanged has fired exactly 3 times over the whole sequence.
C12_RoundTripThreeSignals ==
    RoundTripDone => (state = "IDLE" /\ rscCount = 3)

\* C12 amended: after the round trip the state is Idle and
\* RecordingStateChanged has fired exactly 6 times over the whole sequence:
\* once in StartRecording, 3 times in StopRecording, and once each for
\* TranscribeStart and TranscribeStop.
C12_RoundTripSixSignals ==
    RoundTripDone => (state = "IDLE" /\ rscCount = 6 /\ rscLast = FALSE)

\* C12 witness: the round trip has completed with a persisted transcript.
C12_Witness ==
    /\ RoundTripDone
    /\ tasks[1].persist /\ tasks[1].written = 1
    /\ pc = "get"

\* C15: StartRecording called while Idle returns a status string; when
\* create_recording fails it returns recording_failed, the state stays Idle,
\* no listener is called and no handle is created or stored.
C15_FailedStartLeavesIdle ==
    [][(state = "IDLE" /\ IsCall("StartRecording")) =>
          /\ lastRet' \in {"recording_started", "recording_failed"}
          /\ lastRet' = "recording_started" => state' = "RECORDING"
          /\ lastRet' = "recording_failed" =>
                /\ state' = "IDLE"
                /\ rscCount' = rscCount /\ chgCount' = chgCount
                /\ recording' = recording
                /\ cleanupCalls' = cleanupCalls]_vars

\* C15 witness: the first call was a StartRecording that failed.
C15_Witness ==
    /\ nCalls = 1 /\ lastOp = "StartRecording" /\ lastRet = "recording_failed"
    /\ state = "IDLE" /\ recording = 0 /\ cleanupCalls = <<>> /\ rscCount = 0

\* The statuses with which a StartRecording or StopRecording call reports a
\* failure ("raised": the call ended with an exception).
FailureStatus == {"recording_failed", "stop_failed", "raised"}

\* C16: every failed StartRecording or StopRecording emits ErrorOccurred,
\* after a failure the state machine eventually returns to Idle, and every
\* enqueued task is eventually processed to the end of the downstream step
\* (unless the service is closed).
C16_FailureReportedAndRecovered ==
    /\ [][((IsCall("StartRecording") \/ IsCall("StopRecording"))
              /\ lastRet' \in FailureStatus) => errCount' > errCount]_vars
    /\ (lastRet \in FailureStatus) ~> (state = "IDLE")
    /\ \A t \in 1..(MaxCalls \div 2) :
          (Len(tasks) >= t) ~> (closed \/ (Len(tasks) >= t /\ DownstreamDone(t)))

\* C17: is_recording is true exactly in Recording; GetRecordingState replies
\* with it and changes nothing but the reply; before the first state change
\* the state is Idle.
C17_IsRecordingIffRecording ==
    [][/\ \A s \in ProcessingState : is_recording(s) <=> s = "RECORDING"
       /\ chgCount = 0 => state = "IDLE"
       /\ (lastOp' = "GetRecordingState" /\ <<lastOp', lastRet'>> # <<lastOp, lastRet>>) =>
             /\ lastRet' = BoolReply(state = "RECORDING")
             /\ UNCHANGED <<state, listeners, smLast, recording, cleanupCalls,
                            transcript_path, store_transcripts, queue, tasks, pc,
                            cur, cancelRequested, proxy, closed, rscCount, rscLast,
                            errCount, chgCount, stopLog, nCalls, srv, kbd>>]_vars

\* C17 witness: GetRecordingState replied true while Recording, and false in
\* another reachable state is covered by the same formula.
C17_Witness ==
    /\ lastOp = "GetRecordingState" /\ lastRet = "true" /\ state = "RECORDING"

\* C18: a StopRecording call ends by returning recording_stopped,
\* not_recording or stop_failed, never by raising.
C18_StopNeverRaises ==
    lastOp = "StopRecording" =>
        lastRet \in {"recording_stopped", "not_recording", "stop_failed"}

\* C19: a task whose keyboard_client.emit call failed has produced an
\* ErrorOccurred signal.
C19_EmitFailureReported ==
    \A t \in TaskIds :
        tasks[t].emitOk = "failed" => tasks[t].errQueue + tasks[t].errDownstream >= 1

\* The steps of StopRecording that the ordering is stated for.
IsOrderedStep(x) ==
    x \in {"stop", "STOP_RECORDING", "TRANSFORM_START", "fingerprint", "save",
           "TRANSFORM_STOP", "enqueue"}

\* C20: a StopRecording call that returns recording_stopped has executed
\* stop, StopRecording, TransformStart, fingerprint, save, TransformStop and
\* enqueue in that order, added exactly one task to the queue as its last
\* step, left the state Idle, and the processing task has not moved or
\* fired TranscribeStart for the new task during the call.
C20_StopStepsOrdered ==
    [][(IsCall("StopRecording") /\ lastRet' = "recording_stopped") =>
          /\ SelectSeq(stopLog', IsOrderedStep) =
                <<"stop", "STOP_RECORDING", "TRANSFORM_START", "fingerprint", "save",
                  "TRANSFORM_STOP", "enqueue">>
          /\ stopLog'[Len(stopLog')] = "enqueue"
          /\ state' = "IDLE"
          /\ Len(tasks') = Len(tasks) + 1
          /\ queue' = Append(queue, Len(tasks'))
          /\ tasks'[Len(tasks')].stage = "queued"
          /\ tasks'[Len(tasks')].onStart = 0
          /\ \A t \in TaskIds : tasks'[t] = tasks[t]
          /\ pc' = pc /\ cur' = cur]_vars

\* C20 witness: a StopRecording has just returned recording_stopped and its
\* task waits in the queue.
C20_Witness ==
    /\ lastOp = "StopRecording" /\ lastRet = "recording_stopped"
    /\ stopLog = StopSteps /\ state = "IDLE"
    /\ Len(tasks) = 1 /\ queue = <<1>> /\ tasks[1].onStart = 0

\* C21: the consumer loop ends only by cancellation: it never ends with a
\* dequeued task dropped by a failure of its on_start or on_finish callback,
\* of create_transcription or of the decoding.
C21_LoopEndsOnlyOnCancel ==
    \A t \in TaskIds : tasks[t].stage = "dropped" => pc = "cancelled"

\* The tasks the consumer holds between on_start and the end of the
\* downstream step.
InFlight == {t \in TaskIds : tasks[t].stage \in {"transcribing", "yielded", "emitting"}}

\* C22: tasks are taken in the order they were enqueued and one at a time:
\* the queue holds task numbers in increasing order, none of them started, at
\* most one task is in flight, and a task is started only after every earlier
\* task was yielded and its downstream step finished.
C22_FifoOneAtATime ==
    /\ \A i, j \in 1..Len(queue) : i < j => queue[i] < queue[j]
    /\ \A i \in 1..Len(queue) : tasks[queue[i]].onStart = 0
    /\ Cardinality(InFlight) <= 1
    /\ \A t, u \in TaskIds :
          (t < u /\ tasks[u].onStart > 0) =>
              (tasks[t].yielded = 1 /\ tasks[t].stage = "done")

\* C22 witness: the second task waits in the queue while the downstream step
\* of the first one awaits emit.
C22_Witness ==
    /\ Len(tasks) = 2 /\ queue = <<2>>
    /\ tasks[1].stage = "emitting" /\ tasks[1].yielded = 1
    /\ tasks[2].onStart = 0

\* C23: every dequeued task the consumer is done with had on_start called
\* exactly once and on_finish called exactly once.
C23_OneStartOneFinish ==
    \A t \in TaskIds :
        (tasks[t].onStart > 0 /\ tasks[t].stage # "transcribing") =>
            (tasks[t].onStart = 1 /\ tasks[t].onFinish = 1)

\* C24: a task whose create_transcription (or decoding) raised has None in
\* its result slot and was yielded exactly once; no task is yielded more than
\* once, and a task carries a text only if its own call returned one.
C24_FailedTaskYieldedWithNone ==
    \A t \in TaskIds :
        /\ tasks[t].yielded <= 1
        /\ tasks[t].outcome \in FailedOutcomes =>
              (tasks[t].text = NoneText /\ tasks[t].yielded = 1)
        /\ tasks[t].text \notin {NoneText, UnsetText} =>
              tasks[t].outcome \in {"text", "blank"}

\* C24 witness: a task whose call raised an unexpected exception went through
\* the downstream step.
C24_Witness ==
    \E t \in TaskIds :
        /\ tasks[t].outcome = "Exception" /\ tasks[t].text = NoneText
        /\ tasks[t].yielded = 1 /\ tasks[t].stage = "done"

\* C25: an error raised by create_transcription inside the consumer is
\* emitted as ErrorOccurred by the handler installed in the constructor.
C25_ConsumerErrorReachesSink ==
    \A t \in TaskIds :
        tasks[t].outcome \in {"VoiceTypingError", "Exception"} => tasks[t].errQueue = 1

C27_CleanupOncePerStop ==
    [][(IsCall("StopRecording") /\ state = "RECORDING") =>
          /\ recording # 0
          /\ cleanupCalls' = [cleanupCalls EXCEPT ![recording] = @ + 1]
          /\ lastRet' \in {"recording_stopped", "stop_failed"} => recording' = 0]_vars

\* C28: once the service is closed while create_transcription is in flight,
\* the dequeued task is never yielded, its downstream step never runs, the
\* queue is not touched, and the ended consumer never moves again.
C28_CancelDropsInFlightTask ==
    [][/\ (closed /\ pc = "transcribe") =>
             /\ pc' \in {"transcribe", "cancelled"}
             /\ cur' = cur /\ queue' = queue
             /\ tasks'[cur].yielded = 0 /\ tasks'[cur].log = <<>>
             /\ tasks'[cur].written = 0 /\ tasks'[cur].emitCalls = 0
             /\ tasks'[cur].cleanupAttempts = 0
       /\ pc = "cancelled" => UNCHANGED <<pc, queue, tasks, cur>>]_vars

\* C28 witness: the consumer was cancelled during the first task's
\* transcription with the second task still queued.
C28_Witness ==
    /\ pc = "cancelled" /\ cur = 1 /\ queue = <<2>>
    /\ tasks[1].stage = "dropped" /\ tasks[1].yielded = 0 /\ tasks[1].log = <<>>
    /\ tasks[2].onStart = 0

\* C29: a step in which the deletion of a task's audio artifact fails emits
\* no ErrorOccurred beyond those of the queue consumer and of the dispatch
\* branch, finishes the task's downstream step, and goes on to the next
\* queued task (or waits for one).
C29_CleanupFailureOnlyLogged ==
    [][\A t \in TaskIds :
          (tasks'[t].cleanupAttempts = tasks[t].cleanupAttempts + 1
              /\ tasks'[t].audioExists) =>
             /\ errCount' - errCount =
                   (tasks'[t].errQueue - tasks[t].errQueue)
                     + (tasks'[t].errDownstream - tasks[t].errDownstream)
             /\ tasks'[t].stage = "done"
             /\ IF queue = <<>> THEN pc' = "get"
                ELSE /\ tasks'[Head(queue)].onStart = 1
                     /\ cur' = Head(queue)
                     /\ queue' = Tail(queue)]_vars

\* C29 witness: the artifact of the first task could not be deleted and the
\* second task went through the downstream step.
C29_Witness ==
    /\ Len(tasks) = 2
    /\ tasks[1].cleanupAttempts = 1 /\ tasks[1].audioExists /\ tasks[1].stage = "done"
    /\ tasks[2].stage = "done"

\* C32: StartRecording called in Transforming or Transcribing starts no
\* recording: it returns recording_failed, the state and the signal count are
\* unchanged, and no capture stream (handle) is opened or stored.
C32_NoStartWhileBusy ==
    [][(state \in {"TRANSFORMING", "TRANSCRIBING"} /\ IsCall("StartRecording")) =>
          /\ lastRet' = "recording_failed"
          /\ state' = state
          /\ rscCount' = rscCount
          /\ cleanupCalls' = cleanupCalls
          /\ recording' = recording]_vars

\* The statements of StopRecording that can raise between TransformStart and
\* TransformStop.
TransformFailures == {"fingerprint", "save", "provider", "model", "client"}

\* C33: a StopRecording that fails between TransformStart and TransformStop
\* leaves the state Transforming, and from Transforming no step leaves it:
\* StartRecording returns recording_failed and StopRecording not_recording.
C33_StuckInTransforming ==
    [][/\ (IsCall("StopRecording") /\ state = "RECORDING" /\ recording # 0
             /\ \E f \in TransformFailures : stopLog' = Executed(f)) =>
                (state' = "TRANSFORMING" /\ lastRet' # "recording_stopped")
       /\ state = "TRANSFORMING" =>
             /\ state' = "TRANSFORMING"
             /\ IsCall("StartRecording") => lastRet' = "recording_failed"
             /\ IsCall("StopRecording") => lastRet' = "not_recording"]_vars

\* C33 witness: after the failed StopRecording a StartRecording and a
\* StopRecording were answered and the state is still Transforming.
C33_Witness ==
    /\ state = "TRANSFORMING" /\ nCalls = 4
    /\ lastOp = "StopRecording" /\ lastRet = "not_recording"
    /\ stopLog = Executed("client")

\* C34: in Recording the orchestrator holds a handle on which cleanup() has
\* not been called.
C34_RecordingHoldsOpenHandle ==
    state = "RECORDING" => (recording # 0 /\ cleanupCalls[recording] = 0)

\* C35: every on_start call of the consumer finds the state Idle: after it
\* the state is Transcribing and the task is being transcribed.
C35_OnStartFindsIdle ==
    [][\A t \in TaskIds :
          tasks'[t].onStart > tasks[t].onStart =>
              (state' = "TRANSCRIBING" /\ tasks'[t].stage = "transcribing")]_vars

\* C36: the state is Transcribing iff the consumer has called on_start for
\* exactly one task whose on_finish it has not called yet.
C36_TranscribingIffTaskInFlight ==
    state = "TRANSCRIBING" <=>
        Cardinality({t \in TaskIds : tasks[t].onStart > 0 /\ tasks[t].onFinish = 0}) = 1

\* C37: a task whose transcription is the empty string after stripping goes
\* through the downstream step like a failed one: no emit call, no transcript
\* file, one ErrorOccurred from the dispatch branch.
C37_BlankTextIsFailure ==
    \A t \in TaskIds :
        (tasks[t].outcome = "blank" /\ tasks[t].yielded > 0) =>
            /\ tasks[t].text = ""
            /\ tasks[t].stage = "done"
            /\ tasks[t].emitCalls = 0 /\ tasks[t].emitOk = "none"
            /\ tasks[t].written = 0
            /\ tasks[t].errDownstream = 1
            /\ Head(tasks[t].log) = "error"

\* C37 witness: a persisted task with a blank transcription is done.
C37_Witness ==
    \E t \in TaskIds :
        /\ tasks[t].outcome = "blank" /\ tasks[t].persist
        /\ tasks[t].stage = "done" /\ tasks[t].errDownstream = 1

\* C38: a cancellation delivered while create_transcription is in flight
\* runs on_finish once, which takes the state from Transcribing to Idle, and
\* a consumer ended by cancellation never leaves the state Transcribing.
C38_CancelRunsOnFinish ==
    [][/\ (pc = "transcribe" /\ pc' = "cancelled") =>
             /\ state = "TRANSCRIBING" /\ state' = "IDLE"
             /\ tasks'[cur].onFinish = tasks[cur].onFinish + 1
             /\ tasks'[cur].onFinish = 1
       /\ pc' = "cancelled" => state' # "TRANSCRIBING"]_vars

\* C38 witness: the consumer was cancelled during a transcription and the
\* state is Idle, the last signal carrying false.
C38_Witness ==
    /\ pc = "cancelled" /\ cur # 0
    /\ tasks[cur].onStart = 1 /\ tasks[cur].onFinish = 1 /\ tasks[cur].yielded = 0
    /\ state = "IDLE" /\ rscLast = FALSE /\ closed

\* C39: when the pipeline leaves its connect phase without a proxy (other
\* than by cancellation) it has emitted one ErrorOccurred and ended; from
\* then on it never moves, every task stays queued with on_start not called,
\* the state never is Transcribing, and only IPC calls emit errors.
C39_ConnectFailureEndsPipeline ==
    [][/\ (pc = "connect" /\ pc' \notin {"connect", "cancelled"} /\ ~proxy') =>
             /\ pc' = "unavailable"
             /\ errCount' = errCount + 1
             /\ UNCHANGED <<state, queue, tasks, rscCount>>
       /\ pc = "unavailable" =>
             /\ pc' = "unavailable"
             /\ queue' = [i \in 1..Len(tasks') |-> i]
             /\ \A t \in 1..Len(tasks') :
                   tasks'[t].onStart = 0 /\ tasks'[t].stage = "queued"
             /\ state' # "TRANSCRIBING"
             /\ nCalls' = nCalls => errCount' = errCount]_vars

\* C39 witness: after the failed connect two recordings were started and
\* stopped with success and both tasks wait in the queue.
C39_Witness ==
    /\ pc = "unavailable" /\ nCalls = 4
    /\ lastOp = "StopRecording" /\ lastRet = "recording_stopped"
    /\ queue = <<1, 2>> /\ state = "IDLE" /\ errCount = 1

-----------------------------------------------------------------------------
(* voicetyping/keyboard: the text-injection process *)

\* The texts sent to emit.
Texts == {"hello", ""}

\* TypingJob(text, md5_hash), dbus_interface.py:62-63.
TypingJob(text) == [text |-> text, md5_hash |-> Md5(text)]

\* Arity of the constructor call at server.py:34 and of
\* VirtualKeyboardService.__init__ (dbus_interface.py:20, self excluded).
ServiceCtorArgsGiven == 1
ServiceCtorArgsTaken == 0

\* server() of keyboard/server.py.  Line 34 calls VirtualKeyboardService
\* with one argument while its __init__ takes none: the TypeError is raised
\* before the try block at line 45, so neither the handlers nor the finally
\* clause run; no thread is started and the interpreter ends with status 1.
\* With matching arities the run proceeds into the try block.
server ==
    /\ srv.pc = "not_started"
    /\ srv' = IF ServiceCtorArgsGiven # ServiceCtorArgsTaken
              THEN [srv EXCEPT !.pc = "TypeError", !.exit_code = "1"]
              ELSE [srv EXCEPT !.pc = "typing_loop", !.thread_started = TRUE]
    /\ UNCHANGED <<smVars, svcVars, kbd>>

\* process_queue of the typing service, from the top of its loop to the next
\* suspension point, for task k (dbus_interface.py:33-35): queue.get() returns
\* at once when a job is queued.
TypingLoopTop(b, k) ==
    IF b.queue = <<>>
    THEN [b EXCEPT !.consumers = [@ EXCEPT ![k] = "get"], !.job = <<>>]
    ELSE [b EXCEPT !.consumers = [@ EXCEPT ![k] = "typing"],
                   !.job = <<Head(b.queue)>>,
                   !.queue = Tail(b.queue)]

\* emit that starts a processing task on every call.
emit_AlwaysStarts(text) ==
    /\ ~kbd.closed
    /\ kbd.emits < MaxEmits
    /\ kbd' = [kbd EXCEPT !.consumers = Append(@, "new"),
                          !.processing_task = Len(kbd.consumers) + 1,
                          !.queue = Append(@, TypingJob(text)),
                          !.received = Append(@, text),
                          !.emits = @ + 1]
    /\ UNCHANGED <<smVars, svcVars, srv>>

\* VirtualKeyboardInterface.emit, dbus_interface.py:60-67: start() creates
\* the processing task when there is none, then the job is enqueued.
\* received is the history of the texts of the calls, in arrival order.
emit(text) ==
    /\ ~kbd.closed
    /\ kbd.emits < MaxEmits
    /\ LET started == IF kbd.processing_task = 0
                      THEN [kbd EXCEPT !.consumers = Append(@, "new"),
                                       !.processing_task = Len(kbd.consumers) + 1]
                      ELSE kbd
       IN kbd' = [started EXCEPT !.queue = Append(@, TypingJob(text)),
                                 !.received = Append(@, text),
                                 !.emits = @ + 1]
    /\ UNCHANGED <<smVars, svcVars, srv>>

\* The processing task runs: a new task or a woken getter takes the oldest
\* job; a finished to_thread(type_text) records the text and loops.
process_queue(k) ==
    /\ k \in 1..Len(kbd.consumers)
    /\ \/ /\ kbd.consumers[k] = "new"
          /\ kbd' = TypingLoopTop(kbd, k)
       \/ /\ kbd.consumers[k] = "get" /\ kbd.queue # <<>>
          /\ kbd' = TypingLoopTop(kbd, k)
       \/ /\ kbd.consumers[k] = "typing"
          /\ kbd' = TypingLoopTop([kbd EXCEPT !.typed = Append(@, kbd.job[1].text)], k)
    /\ UNCHANGED <<smVars, svcVars, srv>>

\* VirtualKeyboardInterface.close -> VirtualKeyboardService.close,
\* dbus_interface.py:42-46, 56-57: the task is cancelled and forgotten.
close ==
    /\ ~kbd.closed
    /\ kbd' = [kbd EXCEPT
                 !.closed = TRUE,
                 !.processing_task = 0,
                 !.consumers = IF kbd.processing_task = 0 THEN @
                               ELSE [@ EXCEPT ![kbd.processing_task] = "cancelled"]]
    /\ UNCHANGED <<smVars, svcVars, srv>>

KbdNext ==
    \/ server
    \/ \E text \in Texts : emit(text)
    \/ \E k \in 1..MaxEmits : process_queue(k)
    \/ close

KbdSpec == Init /\ [][KbdNext]_vars

JobTexts(jobs) == [i \in 1..Len(jobs) |-> jobs[i].text]

\* C40: every emit call adds exactly one job at the end of the queue; there
\* is no processing task before the first emit and exactly one ever after;
\* at most one job is being typed, and the texts typed, being typed and
\* queued are, in this order, the texts received.
C40_OneConsumerFifoTyping ==
    [][/\ kbd'.emits = kbd.emits + 1 =>
             /\ kbd'.queue = Append(kbd.queue, TypingJob(kbd'.received[Len(kbd'.received)]))
             /\ kbd'.typed = kbd.typed /\ kbd'.job = kbd.job
       /\ Len(kbd'.consumers) = IF kbd'.emits = 0 THEN 0 ELSE 1
       /\ Len(kbd'.received) = kbd'.emits
       /\ Len(kbd'.job) <= 1
       /\ Len(kbd'.job) = 1 => (kbd'.consumers[1] = "typing" \/ kbd'.closed)
       /\ kbd'.received = kbd'.typed \o JobTexts(kbd'.job) \o JobTexts(kbd'.queue)]_vars

\* C40 witness: three emit calls, one text typed, one being typed, one queued,
\* one processing task.
C40_Witness ==
    /\ kbd.emits = 3 /\ Len(kbd.consumers) = 1 /\ kbd.consumers[1] = "typing"
    /\ Len(kbd.typed) = 1 /\ Len(kbd.job) = 1 /\ Len(kbd.queue) = 1
    /\ kbd.received = <<"hello", "", "hello">>

====
